---- MODULE Spec2Model ----
(***************************************************************************)
(* Model of skeleton_discovery (PC algorithm, skeleton phase) of           *)
(* causallearn/utils/PCUtils/SkeletonDiscovery.py.                         *)
(*                                                                         *)
(* Probabilities (alpha and p-values) are multiples of 1/Scale, written as *)
(* the integer numerator: p = Scale stands for 1.0, p = 0 for 0.0.         *)
(* The independence oracle (cg.ci_test) is external: the value it returns  *)
(* for a triple (x, y, S) is chosen when the triple is queried; it may     *)
(* also raise.  One call of skeleton_discovery asks each triple at most    *)
(* once (AskedOnce), so any choice of answers is a pure function.  Where   *)
(* the function is called twice (SpecOrder) the answers are remembered in  *)
(* memo and given again.                                                   *)
(*                                                                         *)
(* Specifications: Spec (up to NumVars variables, any arguments), SpecData *)
(* (the preparation of the data), SpecOrder (a second run in another       *)
(* order), SpecDeep, SpecPass and SpecSkip (more variables, background     *)
(* knowledge that thins the graph at depth 0; SpecSkip runs the driver a   *)
(* second time without the skip of line 57), SpecFixed (the oracle fixed   *)
(* before the runs).  tried, lastBK, lastCall, calls and G0 are history:   *)
(* they record what the driver did and do not influence it.                *)
(*                                                                         *)
(* The graph class and append_value are not part of the file; they are     *)
(* modelled as an adjacency relation and a store of lists.                 *)
(***************************************************************************)
EXTENDS Integers, Sequences, FiniteSets, TLC, Bags

\* ---------------------------------------------------------------- bounds
NumVars == 3
Scale == 2
NumRows == 3
DeepVars == 5

\* -------------------------------------------------------------- helpers
Range(s) == {s[i] : i \in 1..Len(s)}

RECURSIVE SortedSeq(_)
SortedSeq(S) ==
  IF S = {} THEN <<>>
  ELSE LET lo == CHOOSE a \in S : \A b \in S : a <= b
       IN  <<lo>> \o SortedSeq(S \ {lo})

RECURSIVE MaxOf(_)
MaxOf(S) ==
  LET a == CHOOSE v \in S : TRUE
  IN  IF S = {a} THEN a
      ELSE LET r == MaxOf(S \ {a}) IN IF a > r THEN a ELSE r

Perms(n) == {p \in [1..n -> 0..(n-1)] : \A i, j \in 1..n : p[i] = p[j] => i = j}

Identity(n) == [i \in 1..n |-> i - 1]

\* ------------------------------------------ CausalGraph (GraphClass.py)
\* The graph is the set of ordered pairs <<i, j>> with graph[i, j] != 0.
CompleteGraph(n) == {<<i, j>> : i \in 0..(n-1), j \in 0..(n-1)} \ {<<i, i>> : i \in 0..(n-1)}

EmptySepset(n) == [pr \in (0..(n-1)) \X (0..(n-1)) |-> <<>>]

neighbors(G, n, i) == SortedSeq({j \in 0..(n-1) : <<i, j>> \in G})

max_degree(G, n) == MaxOf({Cardinality({j \in 0..(n-1) : <<i, j>> \in G}) : i \in 0..(n-1)})

get_edge(G, i, j) == <<i, j>> \in G \/ <<j, i>> \in G

remove_edge(G, i, j) == G \ {<<i, j>>, <<j, i>>}

append_value(array, i, j, value) == [array EXCEPT ![<<i, j>>] = Append(@, value)]

\* ------------------------------------------------------------ itertools
RECURSIVE combinations(_, _)
combinations(s, k) ==
  IF k = 0 THEN << <<>> >>
  ELSE IF Len(s) < k THEN <<>>
  ELSE LET rest == combinations(Tail(s), k - 1)
       IN  [i \in 1..Len(rest) |-> <<Head(s)>> \o rest[i]] \o combinations(Tail(s), k)

\* --------------------------------------------------------------- numpy
\* faulty variant: y stays in the pool of candidates
np_delete_Nothing(s, v) == s

np_delete(s, v) == SelectSeq(s, LAMBDA e : e # v)

\* faulty variant: the codes start at 1
_unique_FromOne(column) == [i \in 1..Len(column) |-> Cardinality({v \in Range(column) : v <= column[i]})]

_unique(column) == [i \in 1..Len(column) |-> Cardinality({v \in Range(column) : v < column[i]})]

NoData == [isarray |-> FALSE, cols |-> <<>>]

\* ---------------------------------------------------------------- state
VARIABLES
  data, alpha, indep_test, stable, bk_given, forbidden,   \* the arguments
  xorder, yorder,          \* the orders in which the x loop and the y loop visit the vertices
  pc,                      \* position in skeleton_discovery
  no_of_var, graph, sepset, cg_data, cardinalities,       \* cg
  depth, edge_removal, xi, Neigh_x, yi, Ss,               \* locals
  remember, memo, asked, reasked, failed, lastCall, G0,   \* oracle and history
  tried,                   \* the sets tried for the pair (x, y) of the y loop, with the p-values
  lastBK,                  \* the last query of the background knowledge
  calls,                   \* the invocations of the oracle, in order (kept where memo is)
  skip_on,                 \* FALSE for the driver without the skip of line 57
  run, first                                              \* repeated runs

args == <<data, alpha, indep_test, stable, bk_given, forbidden>>
cgv == <<no_of_var, graph, sepset, cg_data, cardinalities>>
locals == <<depth, edge_removal, xi, Neigh_x, yi, Ss>>
hist == <<remember, memo, asked, reasked, failed, lastCall, G0>>
runs == <<run, first>>
orders == <<xorder, yorder, skip_on>>
trace == <<tried, lastBK, calls>>
vars == <<args, orders, pc, cgv, locals, hist, trace, runs>>

PValues == 0..Scale
Alphas == (0 - 1)..(Scale + 1)

\* A column of raw values; the columns of the matrices the runs start from.
Matrix(m) == [isarray |-> TRUE, cols |-> [c \in 1..m |-> [r \in 1..NumRows |-> 7 * r]]]

\* the background knowledge given, when one is: 0 -- 2 is forbidden both ways, 1 -> 0 one way
BKPairs == {<<0, 2>>, <<2, 0>>, <<1, 0>>}

NoCall == [made |-> FALSE, x |-> 0, y |-> 0, S |-> <<>>, neigh |-> {}, edge |-> FALSE, depth |-> 0 - 1]

NoQuery == [made |-> FALSE, x |-> 0, y |-> 0, edge |-> FALSE]

\* the state before the call, the oracle apart
InitCall ==
  /\ pc = "start"
  /\ skip_on = TRUE
  /\ tried = <<>> /\ lastBK = NoQuery /\ calls = <<>>
  /\ no_of_var = 0 /\ graph = {} /\ sepset = <<>> /\ cg_data = NoData /\ cardinalities = <<>>
  /\ depth = 0 - 1 /\ edge_removal = <<>> /\ xi = 0 /\ Neigh_x = <<>> /\ yi = 0 /\ Ss = <<>>
  /\ asked = {} /\ reasked = FALSE
  /\ failed = FALSE /\ lastCall = NoCall /\ G0 = {}
  /\ run = 1 /\ first = [graph |-> {}, sepset |-> <<>>, calls |-> <<>>]

\* nothing is known of the oracle before it is asked
InitLocals == InitCall /\ memo = <<>>

\* range(no_of_var), and the ascending order of cg.neighbors
Init ==
  /\ \E m \in 1..NumVars :
       /\ data \in {Matrix(m), NoData}
       /\ xorder = Identity(m) /\ yorder = Identity(m)
  /\ alpha \in Alphas
  /\ indep_test \in {"fisherz", "chisq"}
  /\ stable \in BOOLEAN
  /\ \/ bk_given = FALSE /\ forbidden = {}
     \/ bk_given = TRUE /\ forbidden \in SUBSET BKPairs
  /\ remember = FALSE
  /\ InitLocals

\* -------------------------------------------------- skeleton_discovery
\* faulty variant: the bounds of alpha are accepted
ArgsOK_Inclusive == data.isarray /\ 0 <= alpha /\ alpha <= Scale

\* assert type(data) == np.ndarray; assert 0 < alpha < 1
ArgsOK == data.isarray /\ 0 < alpha /\ alpha < Scale

Validate ==
  /\ pc = "start"
  /\ pc' = IF ArgsOK THEN "setup" ELSE "assert_failed"
  /\ UNCHANGED <<args, orders, cgv, locals, hist, trace, runs>>

IsDiscrete(t) == t = "chisq" \/ t = "gsq"

Encode(cols) == [c \in 1..Len(cols) |-> _unique(cols[c])]

\* no_of_var = data.shape[1]; cg = CausalGraph(no_of_var); data preparation; depth = -1
Setup ==
  /\ pc = "setup"
  /\ LET n == Len(data.cols)
     IN  /\ no_of_var' = n
         /\ graph' = CompleteGraph(n)
         /\ sepset' = EmptySepset(n)
  /\ IF IsDiscrete(indep_test)
     THEN LET enc == Encode(data.cols)
          IN  /\ cg_data' = [isarray |-> TRUE, cols |-> enc]
              /\ cardinalities' = [c \in 1..Len(enc) |-> MaxOf(Range(enc[c])) + 1]
     ELSE /\ cg_data' = data
          /\ cardinalities' = <<>>
  /\ depth' = 0 - 1
  /\ pc' = "while"
  /\ UNCHANGED <<args, orders, edge_removal, xi, Neigh_x, yi, Ss, hist, trace, runs>>

\* faulty variant: one pass too many
LoopCond_Geq(G, n, d) == max_degree(G, n) - 1 >= d

\* while cg.max_degree() - 1 > depth
LoopCond(G, n, d) == max_degree(G, n) - 1 > d

\* depth += 1; edge_removal = []; for x in range(no_of_var)
StartPass ==
  /\ pc = "while"
  /\ LoopCond(graph, no_of_var, depth)
  /\ depth' = depth + 1
  /\ edge_removal' = <<>>
  /\ xi' = 1
  /\ G0' = graph
  /\ pc' = "for_x"
  /\ UNCHANGED <<args, orders, cgv, Neigh_x, yi, Ss, remember, memo, asked, reasked, failed, lastCall, trace, runs>>

\* return cg
Return ==
  /\ pc = "while"
  /\ ~LoopCond(graph, no_of_var, depth)
  /\ pc' = "done"
  /\ UNCHANGED <<args, orders, cgv, locals, hist, trace, runs>>

X == xorder[xi]

\* the neighbours of x in the order the y loop visits them
YSeq == SelectSeq(yorder, LAMBDA v : v \in Range(Neigh_x))

Y == YSeq[yi]

\* faulty variant: vertices that still have candidate sets are skipped too
SkipX_TooMany(N, d) == Len(N) < d + 2

\* if len(Neigh_x) < depth - 1: continue
SkipX(N, d) == Len(N) < d - 1

\* faulty variant: the neighbours of x are those of the start of the pass
ForX_FromPassStart ==
  /\ pc = "for_x"
  /\ xi <= no_of_var
  /\ LET N == neighbors(G0, no_of_var, X)
     IN  /\ Neigh_x' = N
         /\ IF skip_on /\ SkipX(N, depth)
            THEN xi' = xi + 1 /\ pc' = "for_x" /\ yi' = yi
            ELSE xi' = xi /\ pc' = "for_y" /\ yi' = 1
  /\ UNCHANGED <<args, orders, cgv, depth, edge_removal, Ss, hist, trace, runs>>

\* Neigh_x = cg.neighbors(x), and the skip of x
ForX ==
  /\ pc = "for_x"
  /\ xi <= no_of_var
  /\ LET N == neighbors(graph, no_of_var, X)
     IN  /\ Neigh_x' = N
         /\ IF skip_on /\ SkipX(N, depth)
            THEN xi' = xi + 1 /\ pc' = "for_x" /\ yi' = yi
            ELSE xi' = xi /\ pc' = "for_y" /\ yi' = 1
  /\ UNCHANGED <<args, orders, cgv, depth, edge_removal, Ss, hist, trace, runs>>

EndForX ==
  /\ pc = "for_x"
  /\ xi > no_of_var
  /\ pc' = "apply"
  /\ UNCHANGED <<args, orders, cgv, locals, hist, trace, runs>>

\* for y in Neigh_x: Neigh_x_noy = np.delete(...); for S in combinations(Neigh_x_noy, depth)
ForY ==
  /\ pc = "for_y"
  /\ yi <= Len(YSeq)
  /\ Ss' = combinations(np_delete(Neigh_x, Y), depth)
  /\ tried' = <<>>
  /\ pc' = "for_S"
  /\ UNCHANGED <<args, orders, cgv, depth, edge_removal, xi, Neigh_x, yi, hist, lastBK, calls, runs>>

EndForY ==
  /\ pc = "for_y"
  /\ yi > Len(YSeq)
  /\ xi' = xi + 1
  /\ pc' = "for_x"
  /\ UNCHANGED <<args, orders, cgv, depth, edge_removal, Neigh_x, yi, Ss, hist, trace, runs>>

EndForS ==
  /\ pc = "for_S"
  /\ Ss = <<>>
  /\ yi' = yi + 1
  /\ pc' = "for_y"
  /\ UNCHANGED <<args, orders, cgv, depth, edge_removal, xi, Neigh_x, Ss, hist, trace, runs>>

is_forbidden(a, b) == <<a, b>> \in forbidden

BothForbidden(x, y) == bk_given /\ is_forbidden(x, y) /\ is_forbidden(y, x)

\* the record of the query of line 62: it is made for every S when there is background knowledge
Queries(x, y) ==
  lastBK' = IF bk_given THEN [made |-> TRUE, x |-> x, y |-> y, edge |-> get_edge(graph, x, y)]
            ELSE lastBK

\* faulty variant: only the entry (x, y) of the adjacency matrix is cleared
RemoveNow_OneWay(G, x, y) == G \ {<<x, y>>}

\* edge1 = get_edge(x, y); if edge1 is not None: remove_edge(edge1); the same for (y, x)
RemoveNow(G, x, y) ==
  LET G1 == IF get_edge(G, x, y) THEN remove_edge(G, x, y) ELSE G
  IN  IF get_edge(G1, y, x) THEN remove_edge(G1, y, x) ELSE G1

\* faulty variant: the separating set is recorded, the pair is not queued for removal
FoundSeparation_NoQueue(x, y, S) ==
  IF ~stable
  THEN /\ graph' = RemoveNow(graph, x, y)
       /\ UNCHANGED <<edge_removal, sepset>>
  ELSE /\ sepset' = append_value(append_value(sepset, x, y, S), y, x, S)
       /\ UNCHANGED <<graph, edge_removal>>

\* faulty variant: the edge is removed at once in stable mode too
FoundSeparation_Eager(x, y, S) ==
  IF ~stable
  THEN /\ graph' = RemoveNow(graph, x, y)
       /\ UNCHANGED <<edge_removal, sepset>>
  ELSE /\ edge_removal' = edge_removal \o << <<x, y>>, <<y, x>> >>
       /\ sepset' = append_value(append_value(sepset, x, y, S), y, x, S)
       /\ graph' = RemoveNow(graph, x, y)

\* faulty variant: the removal is deferred to the end of the pass in both modes
FoundSeparation_Deferred(x, y, S) ==
  /\ edge_removal' = edge_removal \o << <<x, y>>, <<y, x>> >>
  /\ sepset' = append_value(append_value(sepset, x, y, S), y, x, S)
  /\ UNCHANGED graph

\* faulty variant: the separating set is recorded under (x, y) only
FoundSeparation_OneSided(x, y, S) ==
  IF ~stable
  THEN /\ graph' = RemoveNow(graph, x, y)
       /\ UNCHANGED <<edge_removal, sepset>>
  ELSE /\ edge_removal' = edge_removal \o << <<x, y>>, <<y, x>> >>
       /\ sepset' = append_value(sepset, x, y, S)
       /\ UNCHANGED graph

\* faulty variant: the test of the mode is inverted
FoundSeparation_Inverted(x, y, S) ==
  IF stable
  THEN /\ graph' = RemoveNow(graph, x, y)
       /\ UNCHANGED <<edge_removal, sepset>>
  ELSE /\ edge_removal' = edge_removal \o << <<x, y>>, <<y, x>> >>
       /\ sepset' = append_value(append_value(sepset, x, y, S), y, x, S)
       /\ UNCHANGED graph

\* what both branches do once (x, y) is found separated by S, up to the break
FoundSeparation(x, y, S) ==
  IF ~stable
  THEN /\ graph' = RemoveNow(graph, x, y)
       /\ UNCHANGED <<edge_removal, sepset>>
  ELSE /\ edge_removal' = edge_removal \o << <<x, y>>, <<y, x>> >>
       /\ sepset' = append_value(append_value(sepset, x, y, S), y, x, S)
       /\ UNCHANGED graph

Break ==
  /\ yi' = yi + 1
  /\ Ss' = <<>>
  /\ pc' = "for_y"

\* background knowledge forbids both directions: no test, separation with S
ForcedByBK ==
  /\ pc = "for_S"
  /\ Ss # <<>>
  /\ BothForbidden(X, Y)
  /\ Queries(X, Y)
  /\ FoundSeparation(X, Y, Head(Ss))
  /\ Break
  /\ UNCHANGED <<args, orders, no_of_var, cg_data, cardinalities, depth, xi, Neigh_x, hist, tried, calls, runs>>

CallOf(x, y, S) ==
  [made |-> TRUE, x |-> x, y |-> y, S |-> S, neigh |-> {j \in 0..(no_of_var - 1) : <<x, j>> \in graph},
   edge |-> get_edge(graph, x, y), depth |-> depth]

\* the oracle is pure: a triple asked again gets the value it got before
Answers(x, y, S, r) == <<x, y, S>> \in DOMAIN memo => memo[<<x, y, S>>] = r

\* the record of an invocation of cg.ci_test
Asks(x, y, S) ==
  /\ lastCall' = CallOf(x, y, S)
  /\ asked' = asked \cup {<<x, y, S>>}
  /\ reasked' = (reasked \/ <<x, y, S>> \in asked)
  /\ calls' = IF remember THEN Append(calls, <<x, y, S>>) ELSE calls

\* faulty variant: p = alpha counts as independence
Independent_Geq(p, a) == p >= a

\* if p > alpha
Independent(p, a) == p > a

\* p = cg.ci_test(x, y, S) returns r
TestIndep(r) ==
  /\ pc = "for_S"
  /\ Ss # <<>>
  /\ ~BothForbidden(X, Y)
  /\ Answers(X, Y, Head(Ss), r)
  /\ memo' = IF remember THEN (<<X, Y, Head(Ss)>> :> r) @@ memo ELSE memo
  /\ Queries(X, Y)
  /\ Asks(X, Y, Head(Ss))
  /\ tried' = Append(tried, [S |-> Head(Ss), p |-> r])
  /\ IF Independent(r, alpha)
     THEN FoundSeparation(X, Y, Head(Ss)) /\ Break
     ELSE /\ Ss' = Tail(Ss)
          /\ UNCHANGED <<graph, sepset, edge_removal, yi, pc>>
  /\ UNCHANGED <<args, orders, no_of_var, cg_data, cardinalities, depth, xi, Neigh_x, remember, failed, G0, runs>>

\* faulty variant: a failed test counts as independence
TestRaises_AssumeIndependent ==
  /\ pc = "for_S"
  /\ Ss # <<>>
  /\ ~BothForbidden(X, Y)
  /\ <<X, Y, Head(Ss)>> \notin DOMAIN memo
  /\ Queries(X, Y)
  /\ Asks(X, Y, Head(Ss))
  /\ failed' = TRUE
  /\ FoundSeparation(X, Y, Head(Ss))
  /\ Break
  /\ UNCHANGED <<args, orders, no_of_var, cg_data, cardinalities, depth, xi, Neigh_x, remember, memo, G0, tried, runs>>

\* cg.ci_test(x, y, S) raises: nothing catches it
TestRaises ==
  /\ pc = "for_S"
  /\ Ss # <<>>
  /\ ~BothForbidden(X, Y)
  /\ <<X, Y, Head(Ss)>> \notin DOMAIN memo
  /\ Queries(X, Y)
  /\ Asks(X, Y, Head(Ss))
  /\ failed' = TRUE
  /\ pc' = "aborted"
  /\ UNCHANGED <<args, orders, cgv, locals, remember, memo, G0, tried, runs>>

\* for (x, y) in list(set(edge_removal)): remove the edge if it is there
RECURSIVE RemoveAll(_, _)
RemoveAll(G, pairs) ==
  IF pairs = {} THEN G
  ELSE LET p == CHOOSE q \in pairs : TRUE
           G1 == IF get_edge(G, p[1], p[2]) THEN remove_edge(G, p[1], p[2]) ELSE G
       IN  RemoveAll(G1, pairs \ {p})

Apply ==
  /\ pc = "apply"
  /\ graph' = RemoveAll(graph, Range(edge_removal))
  /\ pc' = "while"
  /\ UNCHANGED <<args, orders, no_of_var, sepset, cg_data, cardinalities, locals, hist, trace, runs>>

\* the steps of the driver that ask the independence oracle nothing
Control ==
  \/ Validate
  \/ Setup
  \/ StartPass
  \/ Return
  \/ ForX
  \/ EndForX
  \/ ForY
  \/ EndForY
  \/ EndForS
  \/ ForcedByBK
  \/ Apply

Next ==
  \/ Control
  \/ \E r \in PValues : TestIndep(r)
  \/ TestRaises

Spec == Init /\ [][Next]_vars

\* Termination: the function is one synchronous call, it runs while it has a next step
FairSpec == Spec /\ WF_vars(Next)

\* ------------------------------------------------ two runs, one oracle
\* skeleton_discovery is called a second time with the same arguments and the
\* same oracle (memo is kept), its loops visiting the vertices in another order.
Rerun ==
  /\ pc = "done"
  /\ run = 1
  /\ run' = 2
  /\ first' = [graph |-> graph, sepset |-> sepset, calls |-> calls]
  /\ xorder' \in Perms(no_of_var)
  /\ yorder' \in Perms(no_of_var)
  /\ UNCHANGED skip_on
  /\ pc' = "start"
  /\ no_of_var' = 0 /\ graph' = {} /\ sepset' = <<>> /\ cg_data' = NoData /\ cardinalities' = <<>>
  /\ depth' = 0 - 1 /\ edge_removal' = <<>> /\ xi' = 0 /\ Neigh_x' = <<>> /\ yi' = 0 /\ Ss' = <<>>
  /\ asked' = {} /\ reasked' = FALSE /\ lastCall' = NoCall /\ G0' = {}
  /\ tried' = <<>> /\ lastBK' = NoQuery /\ calls' = <<>>
  /\ UNCHANGED <<args, remember, memo, failed>>

InitOrder ==
  /\ data = Matrix(NumVars)
  /\ xorder = Identity(NumVars) /\ yorder = Identity(NumVars)
  /\ alpha \in {a \in Alphas : 0 < a /\ a < Scale}
  /\ indep_test = "fisherz"
  /\ stable \in BOOLEAN
  /\ \/ bk_given = FALSE /\ forbidden = {}
     \/ bk_given = TRUE /\ forbidden = BKPairs
  /\ remember = TRUE
  /\ InitLocals

\* the oracle of these runs answers 0 or 1
NextOrder ==
  \/ Control
  \/ \E r \in {0, Scale} : TestIndep(r)
  \/ TestRaises
  \/ Rerun

SpecOrder == InitOrder /\ [][NextOrder]_vars

\* -------------------------------------------------- data preparation
\* raw values of a column: labels, ordered as np.unique sorts them, none of them a code
RawValues == {3 * v - 1 : v \in 1..NumRows}

Columns == [1..NumRows -> RawValues]

\* the column ['a', 'a', 'b', 'c', 'b'], with a = 2, b = 5, c = 8
ExampleColumn == <<2, 2, 5, 8, 5>>

\* calls with a matrix of one or two columns of any raw values, for every kind of test
InitData ==
  /\ data \in {[isarray |-> TRUE, cols |-> cs] :
                cs \in {<<c>> : c \in Columns \cup {ExampleColumn}} \cup (Columns \X Columns)}
  /\ xorder = Identity(Len(data.cols)) /\ yorder = Identity(Len(data.cols))
  /\ alpha \in {a \in Alphas : 0 < a /\ a < Scale}
  /\ indep_test \in {"fisherz", "chisq", "gsq"}
  /\ stable = TRUE
  /\ bk_given = FALSE /\ forbidden = {}
  /\ remember = FALSE
  /\ InitLocals

\* the call up to the start of the depth loop
NextData ==
  \/ Validate
  \/ Setup

SpecData == InitData /\ [][NextData]_vars

\* ------------------------------------------------------ deeper passes
\* Runs on more variables, with background knowledge that forbids edges both ways,
\* so that depth 0 leaves a graph in which pairs have several candidate sets.
\* every edge that does not touch vertex 0 is forbidden: a star around vertex 0
StarPairs(m) ==
  {pr \in (0..(m - 1)) \X (0..(m - 1)) : pr[1] # pr[2] /\ pr[1] # 0 /\ pr[2] # 0}

\* every edge of the last vertex is forbidden: the vertex has no neighbour after depth 0
LonePairs(m) ==
  {pr \in (0..(m - 1)) \X (0..(m - 1)) : pr[1] # pr[2] /\ (pr[1] = m - 1 \/ pr[2] = m - 1)}

\* the edge between the last two vertices is forbidden
LastPair(m) == {<<m - 2, m - 1>>, <<m - 1, m - 2>>}

StarCalls == {[m |-> DeepVars, forbidden |-> StarPairs(DeepVars)],
              [m |-> DeepVars, forbidden |-> StarPairs(DeepVars) \cup LonePairs(DeepVars)]}

DenseCalls == {[m |-> NumVars + 1, forbidden |-> LastPair(NumVars + 1)]}

DeepArgs(cs) ==
  /\ \E c \in cs :
       /\ data = Matrix(c.m)
       /\ xorder = Identity(c.m) /\ yorder = Identity(c.m)
       /\ forbidden = c.forbidden
  /\ alpha \in {a \in Alphas : 0 < a /\ a < Scale}
  /\ indep_test = "fisherz"
  /\ stable \in BOOLEAN
  /\ bk_given = TRUE
  /\ InitLocals

InitDeep == DeepArgs(StarCalls \cup DenseCalls) /\ remember = FALSE

SpecDeep == InitDeep /\ [][Next]_vars

\* the same runs, the answers of the oracle remembered; the oracle answers 0 or 1
InitPass == DeepArgs(StarCalls \cup DenseCalls) /\ remember = TRUE

NextPass ==
  \/ Control
  \/ \E r \in {0, Scale} : TestIndep(r)
  \/ TestRaises

SpecPass == InitPass /\ [][NextPass]_vars

\* ------------------------------------------- the driver without the skip
\* skeleton_discovery is called a second time with the same arguments, the same
\* oracle and the same order, lines 57-58 taken out.
RerunNoSkip ==
  /\ pc = "done"
  /\ run = 1
  /\ run' = 2
  /\ first' = [graph |-> graph, sepset |-> sepset, calls |-> calls]
  /\ skip_on' = FALSE
  /\ UNCHANGED <<xorder, yorder>>
  /\ pc' = "start"
  /\ no_of_var' = 0 /\ graph' = {} /\ sepset' = <<>> /\ cg_data' = NoData /\ cardinalities' = <<>>
  /\ depth' = 0 - 1 /\ edge_removal' = <<>> /\ xi' = 0 /\ Neigh_x' = <<>> /\ yi' = 0 /\ Ss' = <<>>
  /\ asked' = {} /\ reasked' = FALSE /\ lastCall' = NoCall /\ G0' = {}
  /\ tried' = <<>> /\ lastBK' = NoQuery /\ calls' = <<>>
  /\ UNCHANGED <<args, remember, memo, failed>>

InitSkip == DeepArgs(StarCalls) /\ remember = TRUE

NextSkip ==
  \/ NextPass
  \/ RerunNoSkip

SpecSkip == InitSkip /\ [][NextSkip]_vars

\* ----------------------------------------------- an oracle fixed beforehand
\* every triple (x, y, S) the driver can ask on m variables
Triples(m) ==
  {<<pr[1], pr[2], SortedSeq(T)>> :
     pr \in {q \in (0..(m - 1)) \X (0..(m - 1)) : q[1] # q[2]}, T \in SUBSET (0..(m - 1))}

\* the oracle for which no two variables are independent and any two are independent
\* given one or more of the others; lo is its p-value for the empty set
ChainOracle(m, lo) == [t \in Triples(m) |-> IF t[3] = <<>> THEN lo ELSE Scale]

\* calls without background knowledge, the oracle known for all triples; it does not raise
InitFixed ==
  /\ data = Matrix(NumVars)
  /\ xorder = Identity(NumVars) /\ yorder = Identity(NumVars)
  /\ alpha \in {a \in Alphas : 0 < a /\ a < Scale}
  /\ indep_test = "fisherz"
  /\ stable \in BOOLEAN
  /\ bk_given = FALSE /\ forbidden = {}
  /\ remember = TRUE
  /\ InitCall
  /\ \E lo \in {p \in PValues : p <= alpha} : memo = ChainOracle(NumVars, lo)

NextFixed ==
  \/ Validate
  \/ Setup
  \/ StartPass
  \/ Return
  \/ ForX
  \/ EndForX
  \/ ForY
  \/ EndForY
  \/ EndForS
  \/ \E r \in PValues : TestIndep(r)
  \/ Apply
  \/ Rerun

SpecFixed == InitFixed /\ [][NextFixed]_vars

\* ============================================================== claims
Nodes == 0..(no_of_var - 1)

Pairs == {pr \in Nodes \X Nodes : pr[1] # pr[2]}

Returned == pc = "done"

InPass == pc \in {"for_x", "for_y", "for_S"}

NeighSet(G, i) == {j \in Nodes : <<i, j>> \in G}

BagOf(s) == [v \in Range(s) |-> Cardinality({i \in 1..Len(s) : s[i] = v})]

\* one call never asks the oracle the same triple twice
AskedOnce == ~reasked

\* C1: on return, every edge of the initial complete graph that is absent from the
\* returned graph has at least one separating set recorded under (x, y) and under
\* (y, x), in stable and in non-stable mode.
C1_RemovedEdgeHasSepset ==
  Returned =>
    \A pr \in Pairs :
      pr \notin graph => Len(sepset[pr]) >= 1 /\ Len(sepset[<<pr[2], pr[1]>>]) >= 1

\* C2: on return, every edge still in the returned graph has an empty entry of the
\* separation-set store under (x, y) and under (y, x).
C2_KeptEdgeHasNoSepset ==
  Returned =>
    \A pr \in Pairs :
      pr \in graph => sepset[pr] = <<>> /\ sepset[<<pr[2], pr[1]>>] = <<>>

\* a stable run returns after a depth-1 pass with an edge kept and a separating set recorded
C2_Witness ==
  /\ Returned /\ stable /\ depth >= 1
  /\ graph # {}
  /\ \E pr \in Pairs : sepset[pr] # <<>>

\* C3: in stable mode with a pure oracle, the returned graph and the separating sets
\* recorded per ordered pair, compared as bags, are the same for the order of the
\* code and for any other order of visiting the vertices in the x and y loops.
C3_StableOrderIndependent ==
  (Returned /\ run = 2 /\ stable) =>
    /\ graph = first.graph
    /\ \A pr \in Pairs : BagOf(sepset[pr]) = BagOf(first.sepset[pr])

\* a second stable run in another order has returned, with edges removed and edges kept
C3_Witness ==
  /\ Returned /\ run = 2 /\ stable
  /\ xorder # Identity(no_of_var) /\ yorder # Identity(no_of_var) /\ xorder # yorder
  /\ graph # {} /\ graph # CompleteGraph(no_of_var)
  /\ depth >= 1

\* C4: in stable mode the graph does not change from the start of a depth pass until
\* the pass is over: the neighbour query of x and every oracle call of the pass see
\* the edges of the start of the pass, and only the end-of-pass step removes edges.
C4_StableGraphFrozen ==
  /\ [](stable /\ (InPass \/ pc = "apply") =>
          /\ graph = G0
          /\ (pc \in {"for_y", "for_S"} => Range(Neigh_x) = NeighSet(G0, X))
          /\ (lastCall.made /\ lastCall.depth = depth =>
                lastCall.neigh = NeighSet(G0, lastCall.x)))
  /\ [][stable /\ graph' # graph => pc \in {"setup", "apply"}]_vars

\* a stable pass goes on after a separation was found, the edge still in the graph
C4_Witness ==
  /\ stable /\ pc = "for_S"
  /\ edge_removal # <<>>
  /\ \A i \in 1..Len(edge_removal) : edge_removal[i] \in graph
  /\ lastCall.made /\ lastCall.depth = depth

\* C5: every conditioning set S passed to the oracle for (x, y) at depth d has d
\* elements, contains neither x nor y, and consists of neighbours of x in the graph
\* at the time of the call, also in non-stable mode after an edge of x was removed
\* earlier in the same pass.
C5_ConditioningSetFromLiveNeighbors ==
  lastCall.made =>
    /\ Len(lastCall.S) = lastCall.depth
    /\ Cardinality(Range(lastCall.S)) = lastCall.depth
    /\ lastCall.x \notin Range(lastCall.S)
    /\ lastCall.y \notin Range(lastCall.S)
    /\ Range(lastCall.S) \subseteq lastCall.neigh

Terminated == pc \in {"done", "assert_failed", "aborted"}

\* C6: the depth loop terminates for every number of variables, oracle and mode:
\* depth starts at -1 and grows by exactly 1 per pass, a pass starts only while
\* max degree - 1 > depth, and on return max degree - 1 <= depth, with
\* depth <= m - 2 when m >= 2 and no pass at all when m <= 1.
C6_DepthLoopTerminates ==
  /\ <>Terminated
  /\ [](/\ (pc \in {"start", "setup"} => depth = 0 - 1)
        /\ (Returned =>
              /\ max_degree(graph, no_of_var) - 1 <= depth
              /\ (no_of_var >= 2 => depth <= no_of_var - 2)
              /\ (no_of_var <= 1 => depth = 0 - 1)))
  /\ [][\/ depth' = depth
        \/ /\ depth' = depth + 1
           /\ pc = "while" /\ pc' = "for_x"
           /\ max_degree(graph, no_of_var) - 1 > depth]_vars

\* a run on the largest number of variables returns after the deepest possible pass
C6_Witness ==
  /\ Returned
  /\ no_of_var = NumVars
  /\ depth = no_of_var - 2
  /\ graph # {}

LowDegree(G, d) == {i \in Nodes : Cardinality(NeighSet(G, i)) < d - 1}

\* C7: the graph starts as the complete graph on 0..m-1 and changes only by the
\* removal of edges; it stays undirected and without self-loops, so no degree ever
\* grows and, for every d, the set of vertices with fewer than d - 1 neighbours
\* only grows.
C7_GraphOnlyShrinks ==
  /\ [](/\ \A pr \in graph : <<pr[2], pr[1]>> \in graph /\ pr[1] # pr[2]
        /\ graph \subseteq Nodes \X Nodes)
  /\ [][IF pc = "setup"
        THEN graph' = {pr \in (0..(Len(data.cols) - 1)) \X (0..(Len(data.cols) - 1)) : pr[1] # pr[2]}
        ELSE /\ graph' \subseteq graph
             /\ \A i \in Nodes : Cardinality(NeighSet(graph', i)) <= Cardinality(NeighSet(graph, i))
             /\ \A d \in 0..(NumVars + 1) : LowDegree(graph, d) \subseteq LowDegree(graph', d)]_vars

\* in the middle of a non-stable pass, after an edge was removed, edges are left
C7_Witness ==
  /\ ~stable /\ pc = "for_S" /\ depth >= 1
  /\ graph # {} /\ graph # G0

ForbiddenBothWays == {pr \in Pairs : bk_given /\ pr \in forbidden /\ <<pr[2], pr[1]>> \in forbidden}

\* C8: with background knowledge that forbids both x -> y and y -> x, in both modes
\* the edge is removed by the end of depth 0, the independence oracle is never
\* invoked for (x, y) or (y, x), and the separating set recorded under (x, y) and
\* (y, x) is the empty set.
C8_ForbiddenEdgeRemovedAtDepthZero ==
  \A pr \in ForbiddenBothWays :
    /\ \A t \in asked : ~(t[1] = pr[1] /\ t[2] = pr[2])
    /\ (Returned \/ depth >= 1 =>
          /\ pr \notin graph
          /\ Len(sepset[pr]) >= 1
          /\ \A i \in 1..Len(sepset[pr]) : sepset[pr][i] = <<>>)

BadArgs == alpha <= 0 \/ alpha >= Scale \/ ~data.isarray

\* C9: with alpha <= 0 or alpha >= 1, or data that is no numpy array, the call fails
\* before any work: no graph is created or changed, no data is encoded, no oracle
\* is invoked and nothing is returned.
C9_BadArgumentsFailFirst ==
  BadArgs =>
    /\ pc \in {"start", "assert_failed"}
    /\ no_of_var = 0 /\ graph = {} /\ sepset = <<>>
    /\ cg_data = NoData /\ cardinalities = <<>>
    /\ asked = {} /\ ~lastCall.made /\ ~failed

\* the call was made with alpha = 1 and has failed
C9_Witness == pc = "assert_failed" /\ alpha = Scale /\ data.isarray

\* C10: a failed oracle invocation is not retried and counts neither as
\* independence nor as dependence: the call aborts at once, nothing is invoked,
\* removed or recorded after it, and nothing is returned.
C10_OracleFailureAborts ==
  /\ [](failed => pc = "aborted")
  /\ [][/\ ~failed
        /\ (failed' => UNCHANGED <<graph, sepset, edge_removal, depth, xi, yi, Ss, memo>>)]_vars

\* the oracle failed in a depth-1 pass, after edges had been removed
C10_Witness ==
  /\ failed /\ pc = "aborted"
  /\ depth >= 1
  /\ graph # CompleteGraph(no_of_var)

\* C11: for chisq and gsq each column is encoded on its own: equal raw values get
\* equal codes, distinct raw values distinct codes, the codes are exactly 0..k-1 for
\* the k distinct values of the column, and the cardinality of the column is
\* max code + 1 = k; ['a','a','b','c','b'] becomes [0,0,1,2,1] with cardinality 3.
\* For any other test the data is stored as it is.
C11_DiscreteColumnsEncoded ==
  pc = "while" =>
    IF indep_test \in {"chisq", "gsq"}
    THEN /\ Len(cg_data.cols) = Len(data.cols)
         /\ Len(cardinalities) = Len(data.cols)
         /\ \A c \in 1..Len(data.cols) :
              LET raw == data.cols[c]
                  enc == cg_data.cols[c]
                  k == Cardinality({raw[i] : i \in 1..Len(raw)})
              IN  /\ Len(enc) = Len(raw)
                  /\ \A i, j \in 1..Len(raw) : (raw[i] = raw[j]) <=> (enc[i] = enc[j])
                  /\ {enc[i] : i \in 1..Len(enc)} = 0..(k - 1)
                  /\ cardinalities[c] = k
                  /\ \A i \in 1..Len(enc) : enc[i] + 1 <= cardinalities[c]
                  /\ \E i \in 1..Len(enc) : enc[i] + 1 = cardinalities[c]
                  /\ (raw = ExampleColumn => enc = <<0, 0, 1, 2, 1>> /\ cardinalities[c] = 3)
    ELSE cg_data = data

\* a gsq call on two columns, one with three distinct values and one with two, was prepared
C11_Witness ==
  /\ pc = "while" /\ indep_test = "gsq"
  /\ Len(data.cols) = 2
  /\ cardinalities = <<3, 2>>
  /\ cg_data.cols[1] # cg_data.cols[2]
  /\ cg_data # data
\* C12: in non-stable mode the step that finds (x, y) separated removes the edge
\* itself, so that the edge is gone before any later query of the oracle or of the
\* background knowledge; the list of pending removals is empty during the whole
\* run, and the removal step at the end of a pass changes nothing.
C12_NonStableRemovesAtOnce ==
  /\ [](~stable => edge_removal = <<>>)
  /\ [][~stable =>
          /\ (pc = "for_S" /\ Ss # <<>> /\ pc' = "for_y" =>
                /\ <<X, Y>> \notin graph' /\ <<Y, X>> \notin graph'
                /\ graph' = graph \ {<<X, Y>>, <<Y, X>>})
          /\ (graph' # graph => pc = "setup" \/ (pc = "for_S" /\ pc' = "for_y"))
          /\ (pc = "apply" => graph' = graph /\ sepset' = sepset)]_vars

\* a non-stable pass of depth 1 that removed an edge and left others is over
C12_Witness ==
  /\ ~stable /\ pc = "while" /\ depth >= 1
  /\ graph # G0 /\ graph # {}
  /\ edge_removal = <<>>

\* the sets of depth-many neighbours of u, v left out, in the graph of the start of the pass
Candidates(u, v) == {S \in SUBSET (NeighSet(G0, u) \ {v}) : Cardinality(S) = depth}

Verdict(u, v, S) == memo[<<u, v, SortedSeq(S)>>]

\* from the side of u, some candidate set separates u and v
SeparatedFrom(u, v) ==
  \E S \in Candidates(u, v) :
    \/ bk_given /\ <<u, v>> \in forbidden /\ <<v, u>> \in forbidden
    \/ <<u, v, SortedSeq(S)>> \in DOMAIN memo /\ Verdict(u, v, S) > alpha

\* from the side of u, every candidate set was tested and none separates u and v
DependentFrom(u, v) ==
  \A S \in Candidates(u, v) :
    /\ ~(bk_given /\ <<u, v>> \in forbidden /\ <<v, u>> \in forbidden)
    /\ <<u, v, SortedSeq(S)>> \in DOMAIN memo
    /\ Verdict(u, v, S) <= alpha

\* C13: a stable pass of depth d that starts on the graph G ends with G less exactly
\* the edges {x, y} for which, u being x or y and v the other one, some set S of d
\* neighbours of u in G other than v has both directions forbidden or an oracle
\* p-value for (u, v, S) above alpha; every other edge of G is kept.
C13_StablePassIsFunctionOfStart ==
  (stable /\ depth >= 0 /\ pc \in {"while", "done"}) =>
    /\ graph \subseteq G0
    /\ \A pr \in G0 :
         /\ pr \notin graph <=> (SeparatedFrom(pr[1], pr[2]) \/ SeparatedFrom(pr[2], pr[1]))
         /\ pr \in graph <=> (DependentFrom(pr[1], pr[2]) /\ DependentFrom(pr[2], pr[1]))

\* a stable pass of depth 1 is over: it removed an edge and kept an edge whose end
\* had two candidate sets
C13_Witness ==
  /\ stable /\ pc = "while" /\ depth = 1
  /\ graph # G0
  /\ \E pr \in graph : Cardinality(Candidates(pr[1], pr[2])) >= 2
  /\ \E pr \in G0 \ graph : ~(bk_given /\ pr \in forbidden)

\* a comes before b in the lexicographic order of tuples of vertices
LexLess(a, b) ==
  \E i \in 1..Len(a) : i <= Len(b) /\ a[i] < b[i] /\ \A j \in 1..(i - 1) : a[j] = b[j]

\* the candidate sets of the pair (X, Y): the ascending tuples of depth-many neighbours of x, y left out
AllS == {SortedSeq(T) : T \in {U \in SUBSET (Range(Neigh_x) \ {Y}) : Cardinality(U) = depth}}

TriedS == {tried[i].S : i \in 1..Len(tried)}

\* C14: for a pair (x, y) visited in a pass the candidate sets are tried in
\* lexicographic order over the neighbours of x; a separation is found only when
\* p > alpha, p = alpha keeps the edge and the next S is tried; after the first
\* separating S no other S is tried for (x, y) in that pass, so the set recorded is
\* the first S of the enumeration with p > alpha.
C14_FirstSeparatingSetInOrder ==
  /\ [](pc = "for_S" =>
          /\ \A i \in 1..Len(tried) : tried[i].S \in AllS /\ tried[i].p <= alpha
          /\ \A i, j \in 1..Len(tried) : i < j => LexLess(tried[i].S, tried[j].S)
          /\ (Ss = <<>> => AllS \subseteq TriedS)
          /\ (Ss # <<>> =>
                /\ Head(Ss) \in AllS \ TriedS
                /\ \A T \in AllS \ TriedS : T = Head(Ss) \/ LexLess(Head(Ss), T))
          /\ {t[3] : t \in {u \in asked : u[1] = X /\ u[2] = Y /\ Len(u[3]) = depth}} = TriedS)
  /\ [][tried' # tried /\ tried' # <<>> =>
          LET S == tried'[Len(tried')].S
              p == tried'[Len(tried')].p
          IN  /\ pc = "for_S" /\ S = Head(Ss) /\ tried' = Append(tried, [S |-> S, p |-> p])
              /\ IF p > alpha
                 THEN /\ pc' = "for_y" /\ yi' = yi + 1 /\ xi' = xi
                      /\ IF stable
                         THEN /\ sepset'[<<X, Y>>] = Append(sepset[<<X, Y>>], S)
                              /\ sepset'[<<Y, X>>] = Append(sepset[<<Y, X>>], S)
                              /\ <<X, Y>> \in Range(edge_removal')
                         ELSE <<X, Y>> \notin graph' /\ <<Y, X>> \notin graph'
                 ELSE /\ pc' = "for_S" /\ yi' = yi /\ xi' = xi
                      /\ Ss' = Tail(Ss)
                      /\ UNCHANGED <<graph, sepset, edge_removal>>]_vars

\* the first candidate of a pair had p = alpha, the second p > alpha and was recorded
C14_Witness ==
  /\ stable /\ pc = "for_y" /\ yi >= 2 /\ depth >= 1
  /\ Len(tried) = 2
  /\ tried[1].p = alpha /\ tried[2].p > alpha
  /\ LET y == YSeq[yi - 1]
         l == sepset[<<X, y>>]
     IN  l # <<>> /\ l[Len(l)] = tried[2].S /\ tried[1].S # tried[2].S

\* C15: the skip of x is a shortcut only: when x is skipped, no neighbour y of x has
\* a set of depth-many other neighbours of x, so the driver without the skip invokes
\* the oracle on the same triples in the same order and returns the same graph and
\* the same separating sets, in both modes.
C15_SkipIsShortcut ==
  /\ [][pc = "for_x" /\ xi <= no_of_var /\ skip_on /\ pc' = "for_x" =>
          /\ Len(Neigh_x') < depth - 1
          /\ \A y \in Range(Neigh_x') :
               {U \in SUBSET (Range(Neigh_x') \ {y}) : Cardinality(U) = depth} = {}]_vars
  /\ [](Returned /\ run = 2 /\ ~skip_on =>
          /\ graph = first.graph
          /\ sepset = first.sepset
          /\ calls = first.calls)

\* the driver without the skip has returned from a pass of depth 3 in which vertices
\* with one neighbour are below the threshold of the skip
C15_Witness ==
  /\ Returned /\ run = 2 /\ ~skip_on
  /\ depth >= 3 /\ calls # <<>>
  /\ \E i \in Nodes : NeighSet(G0, i) # {} /\ Cardinality(NeighSet(G0, i)) < depth - 1

\* the two vertices the x loop visits last
LastVisited == {xorder[no_of_var - 1], xorder[no_of_var]}

\* C16: the result of non-stable mode can depend on the order of the visits: for
\* the oracle ChainOracle, a pure function, and alpha = 1/2, the non-stable run
\* returns the single edge between the two vertices its x loop visits last, so two
\* orders that do not end with the same two vertices return different graphs;
\* the stable runs return the same graph for every order.
C16_NonStableDependsOnOrder ==
  (Returned /\ run = 2) =>
    IF stable
    THEN graph = first.graph
    ELSE /\ graph = {pr \in Pairs : {pr[1], pr[2]} = LastVisited}
         /\ first.graph = {pr \in Pairs : {pr[1], pr[2]} = {no_of_var - 2, no_of_var - 1}}
         /\ (graph = first.graph <=> LastVisited = {no_of_var - 2, no_of_var - 1})

\* two non-stable runs with the same oracle and alpha have returned different graphs
C16_Witness ==
  /\ Returned /\ run = 2 /\ ~stable
  /\ DOMAIN memo = Triples(no_of_var)
  /\ graph # first.graph

\* C17: in every reachable state the store of separating sets is symmetric: what is
\* recorded under (x, y) is what is recorded under (y, x).
C17_SepsetSymmetric ==
  \A pr \in Pairs : sepset[pr] = sepset[<<pr[2], pr[1]>>]

\* in the middle of a stable pass a pair has two different separating sets, one
\* found from each end
C17_Witness ==
  /\ stable /\ InPass
  /\ \E pr \in Pairs :
       /\ Len(sepset[pr]) = 2
       /\ sepset[pr][1] # sepset[pr][2]

\* C18: in both modes the independence oracle and the background knowledge are
\* queried for (x, y) only while the edge between x and y is in the graph at the
\* time of the query: a pair whose edge was removed is not tested again.
C18_OnlyLiveEdgesQueried ==
  /\ [](/\ (lastCall.made => lastCall.edge)
        /\ (lastBK.made => lastBK.edge))
  /\ [][(lastCall' # lastCall \/ lastBK' # lastBK) =>
          /\ pc = "for_S"
          /\ <<X, Y>> \in graph /\ <<Y, X>> \in graph]_vars

\* in a non-stable pass an edge of x was removed and the oracle and the background
\* knowledge were then queried for another neighbour of x
C18_Witness ==
  /\ ~stable /\ pc = "for_S" /\ depth >= 1
  /\ lastCall.made /\ lastCall.depth = depth /\ lastCall.x = X
  /\ lastBK.made /\ lastBK.x = X /\ lastBK.y = lastCall.y
  /\ \E j \in Range(Neigh_x) : j # lastCall.y /\ <<X, j>> \in G0 \ graph

\* the separations of the pass found for the pair pr from the side of its first vertex
FoundFrom(pr) == {i \in 1..Len(edge_removal) : i % 2 = 1 /\ edge_removal[i] = pr}

\* C19: in stable mode an ordered pair has at most two separating sets in the whole
\* run, at most one found from each end, all recorded in one pass and all of the
\* size of the depth of that pass; a pair that has a set gets none at a later depth.
C19_StableSepsetsOfOnePass ==
  /\ [](stable /\ pc \notin {"start", "setup", "assert_failed"} =>
          \A pr \in Pairs :
            LET l == sepset[pr]
                rp == <<pr[2], pr[1]>>
            IN  /\ Len(l) <= 2
                /\ \A i, j \in 1..Len(l) : Len(l[i]) = Len(l[j])
                /\ \A i \in 1..Len(l) : Len(l[i]) <= depth
                /\ (InPass \/ pc = "apply" =>
                      /\ Cardinality(FoundFrom(pr)) <= 1
                      /\ Cardinality(FoundFrom(rp)) <= 1
                      /\ (pr \in G0 => Len(l) = Cardinality(FoundFrom(pr)) + Cardinality(FoundFrom(rp)))
                      /\ (pr \notin G0 => FoundFrom(pr) = {} /\ Len(l) >= 1)))
  /\ [][stable /\ pc # "setup" =>
          \A pr \in Pairs :
            sepset'[pr] # sepset[pr] =>
              /\ pr \in {<<X, Y>>, <<Y, X>>}
              /\ Len(sepset'[pr]) = Len(sepset[pr]) + 1
              /\ \A i \in 1..Len(sepset'[pr]) : Len(sepset'[pr][i]) = depth]_vars

\* a stable run has returned: a pair has two different sets of size 1, one from each
\* end, another pair one set of size 1 and a third pair a set of size 2
C19_Witness ==
  /\ stable /\ Returned
  /\ \E pr \in Pairs :
       Len(sepset[pr]) = 2 /\ Len(sepset[pr][1]) = 1 /\ sepset[pr][1] # sepset[pr][2]
  /\ \E pr \in Pairs : Len(sepset[pr]) = 1 /\ Len(sepset[pr][1]) = 1
  /\ \E pr \in Pairs : Len(sepset[pr]) >= 1 /\ Len(sepset[pr][1]) = 2

====
